---- MODULE Spec2Model ----
(***************************************************************************)
(* Model of scripts/trans-vi.py: the chunking / streaming / recombination  *)
(* pipeline that translates key -> text JSON datasets.                     *)
(*                                                                         *)
(* Text is a sequence of characters (one-character strings; "zh" stands    *)
(* for one CJK character, three bytes in UTF-8).  A Python dict is a       *)
(* sequence of [key, value] records with pairwise distinct keys, in        *)
(* insertion order.  Sizes are kept in bytes: estimate_text_size_mb        *)
(* divides a byte count by 1024 * 1024, which is exact in binary floating  *)
(* point, so "size_mb > max_size_mb" is the byte comparison                *)
(* "bytes > max_size_mb * BytesPerMB".                                     *)
(***************************************************************************)
EXTENDS Integers, Sequences, FiniteSets, TLC

VARIABLES
    split,     \* one call of split_json_into_chunks: its arguments and result
    naming,    \* the runner's naming of output files: files, run_at, output_file
    pc,        \* where the process is
    argc,      \* len(sys.argv)
    files,     \* the *.json names of the source folder, in os.listdir order
    run_at,    \* the run identity
    idx,       \* files the loop of __main__ is done with
    success_count,
    failed_count,
    exit_code, \* the exit status, -1 while the process runs
    tt,        \* the frame of the running translate_text call
    outputs,   \* output folder: <<file name, index of the file whose result it holds>>
    attempted, \* the indices translate_text was called for, in order
    extractor  \* one use of translate_chunk's extraction: the text, the result

main_vars == <<pc, argc, files, run_at, idx, success_count, failed_count,
               exit_code, tt, outputs, attempted>>

vars == <<split, naming, pc, argc, files, run_at, idx, success_count,
          failed_count, exit_code, tt, outputs, attempted, extractor>>

---------------------------------------------------------------------------
(* Bounds of the model *)

MaxEntries == 3     \* entries of a Record Store
MaxValLen == 4      \* characters of a value
MaxBudget == 32     \* bytes of the budget handed to the splitter
MaxStemLen == 4     \* characters of a file name before its extension
MaxFiles == 2       \* *.json files of the source folder
BytesPerMB == 5     \* bytes of the model's megabyte (1024 * 1024 in the code)

\* line 18
MAX_CHUNK_SIZE_MB == 4

\* the budget in bytes
MaxChunkBytes == MAX_CHUNK_SIZE_MB * BytesPerMB

---------------------------------------------------------------------------
(* Text and its UTF-8 size *)

WideChars == {"zh"}

RECURSIVE Rep(_, _)
Rep(c, n) == IF n = 0 THEN <<>> ELSE <<c>> \o Rep(c, n - 1)

RECURSIVE Utf8Len(_)
Utf8Len(text) ==
    IF text = <<>> THEN 0
    ELSE (IF Head(text) \in WideChars THEN 3 ELSE 1) + Utf8Len(Tail(text))

\* estimate_text_size_mb, in bytes (the division by 1024 * 1024 is left to
\* the comparison with the budget)
estimate_text_size(text) == Utf8Len(text)

---------------------------------------------------------------------------
(* JSON values.  A dict is a sequence of [key, value] members with distinct *)
(* keys, in insertion order; a value is a record of a type tag t, the text  *)
(* s of a string or a number, and the items of an array or an object.       *)

JStr(text) == [t |-> "str", s |-> text, items |-> <<>>]
JNum(text) == [t |-> "num", s |-> text, items |-> <<>>]
JLit(name) == [t |-> name, s |-> <<>>, items |-> <<>>]
JArr(items) == [t |-> "arr", s |-> <<>>, items |-> items]
JObj(d) == [t |-> "obj", s |-> <<>>, items |-> d]

KeysOf(d) == {d[i].key : i \in 1..Len(d)}

\* a dict as the mapping it denotes (dict equality ignores insertion order)
AsMap(d) == {<<d[i].key, d[i].value>> : i \in 1..Len(d)}

\* d[key] = value: a new key goes last, a known key keeps its place
DictSet(d, key, value) ==
    IF key \in KeysOf(d)
    THEN [i \in 1..Len(d) |->
             IF d[i].key = key THEN [key |-> key, value |-> value] ELSE d[i]]
    ELSE Append(d, [key |-> key, value |-> value])

\* d.update(other)
RECURSIVE DictUpdate(_, _)
DictUpdate(d, other) ==
    IF other = <<>> THEN d
    ELSE DictUpdate(DictSet(d, other[1].key, other[1].value), Tail(other))

---------------------------------------------------------------------------
(* json.dumps(obj, ensure_ascii=False) *)

EscapeChar(c) ==
    IF c \in {"\"", "\\"} THEN <<"\\", c>>
    ELSE IF c = "\n" THEN <<"\\", "n">>
    ELSE <<c>>

RECURSIVE EscapeText(_)
EscapeText(text) ==
    IF text = <<>> THEN <<>>
    ELSE EscapeChar(Head(text)) \o EscapeText(Tail(text))

dumps_string(text) == <<"\"">> \o EscapeText(text) \o <<"\"">>

Chars(str) ==
    CASE str = "null" -> <<"n", "u", "l", "l">>
      [] str = "true" -> <<"t", "r", "u", "e">>
      [] str = "false" -> <<"f", "a", "l", "s", "e">>

RECURSIVE dumps_value(_, _, _)
RECURSIVE JoinMembers(_, _, _)
RECURSIVE JoinElements(_, _, _)

\* item_sep and key_sep are json.dumps' separators
dumps_value(v, item_sep, key_sep) ==
    CASE v.t = "str" -> dumps_string(v.s)
      [] v.t = "num" -> v.s
      [] v.t = "arr" -> <<"[">> \o JoinElements(v.items, item_sep, key_sep) \o <<"]">>
      [] v.t = "obj" -> <<"{">> \o JoinMembers(v.items, item_sep, key_sep) \o <<"}">>
      [] OTHER -> Chars(v.t)

JoinMembers(d, item_sep, key_sep) ==
    IF d = <<>> THEN <<>>
    ELSE dumps_string(d[1].key) \o key_sep \o dumps_value(d[1].value, item_sep, key_sep)
            \o (IF Len(d) = 1 THEN <<>>
                ELSE item_sep \o JoinMembers(Tail(d), item_sep, key_sep))

JoinElements(items, item_sep, key_sep) ==
    IF items = <<>> THEN <<>>
    ELSE dumps_value(items[1], item_sep, key_sep)
            \o (IF Len(items) = 1 THEN <<>>
                ELSE item_sep \o JoinElements(Tail(items), item_sep, key_sep))

\* json.dumps(d, ensure_ascii=False): item separator ", ", key separator ": "
json_dumps(d) == dumps_value(JObj(d), <<",", " ">>, <<":", " ">>)

\* json.dumps(d, separators=(",", ":")), the smallest text of d
json_dumps_compact(d) == dumps_value(JObj(d), <<",">>, <<":">>)

\* json.dumps(d, ensure_ascii=False, indent=2) of a dict of scalars: every
\* member on a line of its own, indented by two spaces
RECURSIVE IndentMembers(_)
IndentMembers(d) ==
    IF d = <<>> THEN <<>>
    ELSE <<"\n", " ", " ">> \o dumps_string(d[1].key) \o <<":", " ">>
            \o dumps_value(d[1].value, <<",", " ">>, <<":", " ">>)
            \o (IF Len(d) = 1 THEN <<"\n">> ELSE <<",">> \o IndentMembers(Tail(d)))

json_dumps_indent2(d) == <<"{">> \o IndentMembers(d) \o <<"}">>

---------------------------------------------------------------------------
(* json.loads *)

Whitespace == {" ", "\n", "\t", "\r"}

\* the character at i, "" past the end
At(text, i) == IF i \in 1..Len(text) THEN text[i] ELSE ""

RECURSIVE SkipWs(_, _)
SkipWs(text, i) ==
    IF At(text, i) \in Whitespace THEN SkipWs(text, i + 1) ELSE i

ParseError == [ok |-> FALSE, val |-> JLit("null"), pos |-> 0]
Parsed(v, pos) == [ok |-> TRUE, val |-> v, pos |-> pos]

JsonDigits == {"0", "1", "2", "3", "4", "5", "6", "7", "8", "9"}

\* the body of a string from i on, after the opening quote (strict: no raw
\* control character; the escapes \" \\ \/ \n)
RECURSIVE ScanString(_, _, _)
ScanString(text, i, acc) ==
    LET c == At(text, i)
    IN  IF c = "" \/ c \in {"\n", "\t", "\r"} THEN ParseError
        ELSE IF c = "\"" THEN Parsed(JStr(acc), i + 1)
        ELSE IF c = "\\"
        THEN LET e == At(text, i + 1)
             IN  IF e \in {"\"", "\\", "/"}
                 THEN ScanString(text, i + 2, Append(acc, e))
                 ELSE IF e = "n" THEN ScanString(text, i + 2, Append(acc, "\n"))
                 ELSE ParseError
        ELSE ScanString(text, i + 1, Append(acc, c))

RECURSIVE ScanDigits(_, _)
ScanDigits(text, i) ==
    IF At(text, i) \in JsonDigits THEN ScanDigits(text, i + 1) ELSE i

\* -?(0|[1-9][0-9]*): a number without fraction and exponent
ScanNumber(text, i) ==
    LET first == IF At(text, i) = "-" THEN i + 1 ELSE i
        last == IF At(text, first) = "0" THEN first + 1
                ELSE ScanDigits(text, first)
    IN  IF last = first THEN ParseError
        ELSE Parsed(JNum(SubSeq(text, i, last - 1)), last)

LiteralAt(text, i, name) ==
    /\ i + Len(Chars(name)) - 1 <= Len(text)
    /\ SubSeq(text, i, i + Len(Chars(name)) - 1) = Chars(name)

ScanLiteral(text, i) ==
    IF \E name \in {"null", "true", "false"} : LiteralAt(text, i, name)
    THEN LET name == CHOOSE n \in {"null", "true", "false"} : LiteralAt(text, i, n)
         IN  Parsed(JLit(name), i + Len(Chars(name)))
    ELSE ParseError

RECURSIVE ParseValue(_, _)
RECURSIVE ParseMembers(_, _, _)
RECURSIVE ParseElements(_, _, _)

ParseValue(text, i) ==
    LET c == At(text, i)
    IN  CASE c = "\"" -> ScanString(text, i + 1, <<>>)
          [] c = "{" ->
                LET j == SkipWs(text, i + 1)
                IN  IF At(text, j) = "}" THEN Parsed(JObj(<<>>), j + 1)
                    ELSE ParseMembers(text, j, <<>>)
          [] c = "[" ->
                LET j == SkipWs(text, i + 1)
                IN  IF At(text, j) = "]" THEN Parsed(JArr(<<>>), j + 1)
                    ELSE ParseElements(text, j, <<>>)
          [] c \in JsonDigits \cup {"-"} -> ScanNumber(text, i)
          [] OTHER -> ScanLiteral(text, i)

\* the members of an object from i on: "key" : value, then "," or "}"
ParseMembers(text, i, d) ==
    IF At(text, i) # "\"" THEN ParseError
    ELSE
      LET key == ScanString(text, i + 1, <<>>)
      IN  IF ~key.ok THEN ParseError
          ELSE
            LET colon == SkipWs(text, key.pos)
            IN  IF At(text, colon) # ":" THEN ParseError
                ELSE
                  LET value == ParseValue(text, SkipWs(text, colon + 1))
                  IN  IF ~value.ok THEN ParseError
                      ELSE
                        LET next == SkipWs(text, value.pos)
                            members == DictSet(d, key.val.s, value.val)
                        IN  IF At(text, next) = "}"
                            THEN Parsed(JObj(members), next + 1)
                            ELSE IF At(text, next) = ","
                            THEN ParseMembers(text, SkipWs(text, next + 1), members)
                            ELSE ParseError

\* the elements of an array from i on: value, then "," or "]"
ParseElements(text, i, items) ==
    LET value == ParseValue(text, i)
    IN  IF ~value.ok THEN ParseError
        ELSE
          LET next == SkipWs(text, value.pos)
          IN  IF At(text, next) = "]"
              THEN Parsed(JArr(Append(items, value.val)), next + 1)
              ELSE IF At(text, next) = ","
              THEN ParseElements(text, SkipWs(text, next + 1),
                                 Append(items, value.val))
              ELSE ParseError

\* json.loads(text): a value between optional whitespace and nothing else;
\* [ok |-> FALSE] stands for json.JSONDecodeError
json_loads(text) ==
    LET value == ParseValue(text, SkipWs(text, 1))
    IN  IF value.ok /\ SkipWs(text, value.pos) = Len(text) + 1
        THEN [ok |-> TRUE, val |-> value.val]
        ELSE [ok |-> FALSE, val |-> JLit("null")]

---------------------------------------------------------------------------
(* Record Stores the splitter is applied to *)

KeyAlphabet == <<"a", "zh", "\"">>

\* pairwise distinct keys of one, three and one characters' bytes
Key(i) == <<KeyAlphabet[((i - 1) % 3) + 1]>> \o Rep("k", (i - 1) \div 3)

Values == {JStr(Rep("x", n)) : n \in 0..MaxValLen} \cup {JStr(<<"zh", "zh">>)}

Stores ==
    UNION {{[i \in 1..n |-> [key |-> Key(i), value |-> vs[i]]] :
            vs \in [1..n -> Values]} : n \in 0..MaxEntries}

---------------------------------------------------------------------------
(* split_json_into_chunks *)

\* the body of the for loop, from entry i on, and the tail of the function
RECURSIVE SplitLoop(_, _, _, _, _, _)
SplitLoop(data, i, chunks, current_chunk, current_size, max_size) ==
    IF i > Len(data)
    THEN IF current_chunk # <<>> THEN Append(chunks, current_chunk) ELSE chunks
    ELSE
        LET item_json == json_dumps(<<data[i]>>)
            item_size == estimate_text_size(item_json)
        IN  IF item_size > max_size
            THEN SplitLoop(data, i + 1, chunks, current_chunk, current_size, max_size)
            ELSE IF current_size + item_size > max_size /\ current_chunk # <<>>
            THEN SplitLoop(data, i + 1, Append(chunks, current_chunk),
                           <<data[i]>>, item_size, max_size)
            ELSE SplitLoop(data, i + 1, chunks, Append(current_chunk, data[i]),
                           current_size + item_size, max_size)

\* the splitter without its last statement, "if current_chunk: chunks.append"
split_drops_last_chunk(data, max_size) ==
    LET chunks == SplitLoop(data, 1, <<>>, <<>>, 0, max_size)
    IN  IF chunks = <<>> THEN chunks ELSE SubSeq(chunks, 1, Len(chunks) - 1)

\* the splitter with ">=" for ">" in its two size tests
RECURSIVE SplitLoopOffByOne(_, _, _, _, _, _)
SplitLoopOffByOne(data, i, chunks, current_chunk, current_size, max_size) ==
    IF i > Len(data)
    THEN IF current_chunk # <<>> THEN Append(chunks, current_chunk) ELSE chunks
    ELSE
        LET item_size == estimate_text_size(json_dumps(<<data[i]>>))
        IN  IF item_size >= max_size
            THEN SplitLoopOffByOne(data, i + 1, chunks, current_chunk,
                                   current_size, max_size)
            ELSE IF current_size + item_size >= max_size /\ current_chunk # <<>>
            THEN SplitLoopOffByOne(data, i + 1, Append(chunks, current_chunk),
                                   <<data[i]>>, item_size, max_size)
            ELSE SplitLoopOffByOne(data, i + 1, chunks,
                                   Append(current_chunk, data[i]),
                                   current_size + item_size, max_size)

split_off_by_one(data, max_size) ==
    SplitLoopOffByOne(data, 1, <<>>, <<>>, 0, max_size)

\* the splitter with the test of line 53 always true: every kept entry
\* closes the chunk before it
split_one_entry_per_chunk(data, max_size) ==
    LET fits(e) == estimate_text_size(json_dumps(<<e>>)) <= max_size
        kept == SelectSeq(data, fits)
    IN  [k \in 1..Len(kept) |-> <<kept[k]>>]

\* the splitter without the test of line 62: the last chunk is appended
\* even when it is empty
split_appends_last_unguarded(data, max_size) ==
    LET chunks == SplitLoop(data, 1, <<>>, <<>>, 0, max_size)
        fits(e) == estimate_text_size(json_dumps(<<e>>)) <= max_size
    IN  IF SelectSeq(data, fits) = <<>> THEN <<<<>>>> ELSE chunks

\* the splitter without the test of line 53: no chunk is ever closed
split_never_closes(data, max_size) ==
    LET fits(e) == estimate_text_size(json_dumps(<<e>>)) <= max_size
        kept == SelectSeq(data, fits)
    IN  IF kept = <<>> THEN <<>> ELSE <<kept>>

split_json_into_chunks(data, max_size) ==
    SplitLoop(data, 1, <<>>, <<>>, 0, max_size)

---------------------------------------------------------------------------
(* The splitter applied to every store and budget *)

SplitIdle == split = [pc |-> "idle", data |-> <<>>, max_size |-> 0, chunks |-> <<>>]

NamingIdle == naming = [pc |-> "idle", files |-> <<>>, run_at |-> <<>>,
                        idx |-> 0, output_file |-> <<>>]

ExtractIdle == extractor = [pc |-> "idle", prefix |-> <<>>, object |-> <<>>,
                             json |-> <<>>, suffix |-> <<>>, text |-> <<>>,
                             result |-> JLit("null")]

NoFrame == [output_file |-> <<>>, input |-> "", data |-> <<>>, file_size |-> 0,
            chunks |-> <<>>, i |-> 0, translated_data |-> <<>>, requests |-> 0,
            chunk_size |-> 0, results |-> <<>>,
            received |-> FALSE, response |-> <<>>, result |-> JLit("null"),
            failed_chunk |-> 0, failure |-> "", ret |-> 0]

MainIdle ==
    /\ pc = "idle" /\ argc = 0 /\ files = <<>> /\ run_at = <<>> /\ idx = 0
    /\ success_count = 0 /\ failed_count = 0 /\ exit_code = -1
    /\ tt = NoFrame /\ outputs = {} /\ attempted = <<>>

SplitInit ==
    /\ split \in [pc : {"call"}, data : Stores, max_size : 1..MaxBudget,
                  chunks : {<<>>}]
    /\ NamingIdle
    /\ MainIdle
    /\ ExtractIdle

SplitCall ==
    /\ split.pc = "call"
    /\ split' = [split EXCEPT !.pc = "returned",
                              !.chunks = split_json_into_chunks(split.data,
                                                                split.max_size)]
    /\ UNCHANGED <<naming, main_vars, extractor>>

SpecSplit == SplitInit /\ [][SplitCall]_vars

\* the entries the splitter does not skip: standalone size within the budget
Oversized(e, max_size) == estimate_text_size(json_dumps(<<e>>)) > max_size

Kept(data, max_size) ==
    {<<data[i].key, data[i].value>> :
        i \in {j \in 1..Len(data) : ~Oversized(data[j], max_size)}}

\* C1: the chunks returned by the splitter have pairwise disjoint key sets,
\* their union is the store without its oversized entries (same keys, same
\* values), and the serialized size of every chunk is within the budget.
C1_SplitPartitions ==
    split.pc = "returned" =>
        LET chunks == split.chunks
        IN  /\ \A i, j \in 1..Len(chunks) :
                    i # j => KeysOf(chunks[i]) \cap KeysOf(chunks[j]) = {}
            /\ UNION {AsMap(chunks[i]) : i \in 1..Len(chunks)}
                    = Kept(split.data, split.max_size)
            /\ \A i \in 1..Len(chunks) :
                    estimate_text_size(json_dumps(chunks[i])) <= split.max_size

\* a split into two chunks that skipped an oversized entry
C1_Witness ==
    /\ split.pc = "returned"
    /\ Len(split.chunks) = 2
    /\ \E i \in 1..Len(split.data) : Oversized(split.data[i], split.max_size)

\* C2 as stated: a store whose total serialized size is within the budget,
\* the empty store included, comes back as exactly one chunk equal to it.
C2_Original ==
    (split.pc = "returned"
        /\ estimate_text_size(json_dumps(split.data)) <= split.max_size)
    => (Len(split.chunks) = 1 /\ AsMap(split.chunks[1]) = AsMap(split.data))

\* C2 (amended): a non-empty store whose total serialized size is within the
\* budget comes back as exactly one chunk equal to it; the empty store comes
\* back as no chunk at all.
C2_SmallStoreOneChunk ==
    split.pc = "returned" =>
        /\ (split.data # <<>>
              /\ estimate_text_size(json_dumps(split.data)) <= split.max_size)
            => split.chunks = <<split.data>>
        /\ split.data = <<>> => split.chunks = <<>>

\* a store of several entries that fits the budget exactly
C2_Witness ==
    /\ split.pc = "returned"
    /\ Len(split.data) >= 2
    /\ estimate_text_size(json_dumps(split.data)) = split.max_size
    /\ split.chunks = <<split.data>>

---------------------------------------------------------------------------
(* Output file names: replace_filename_pattern and the runner's naming *)

Digits == <<"0", "1", "2", "3", "4", "5", "6", "7", "8", "9">>

IsDigit(c) == \E d \in 1..Len(Digits) : Digits[d] = c

DotJson == <<".", "j", "s", "o", "n">>

EndsWith(text, suffix) ==
    /\ Len(text) >= Len(suffix)
    /\ SubSeq(text, Len(text) - Len(suffix) + 1, Len(text)) = suffix

\* the ways r"^(.+?)_(\d+)\.json$" matches from the start of the name: the
\* underscore at i and the last digit at j ("." matches no newline, "$"
\* matches at the end and before a final newline)
PatternMatches(filename) ==
    {m \in (2..Len(filename)) \X (3..Len(filename)) :
        /\ \A k \in 1..(m[1] - 1) : filename[k] # "\n"
        /\ filename[m[1]] = "_"
        /\ m[2] > m[1]
        /\ \A k \in (m[1] + 1)..m[2] : IsDigit(filename[k])
        /\ SubSeq(filename, m[2] + 1, Len(filename))
                \in {DotJson, DotJson \o <<"\n">>}}

\* re.match: group 1 is lazy (the leftmost underscore that lets the rest
\* match), group 2 greedy
re_match(filename) ==
    LET ms == PatternMatches(filename)
    IN  IF ms = {} THEN [matched |-> FALSE, number |-> <<>>]
        ELSE LET i == CHOOSE i \in {m[1] : m \in ms} :
                          \A m \in ms : i <= m[1]
                 j == CHOOSE j \in {m[2] : m \in {n \in ms : n[1] = i}} :
                          \A m \in {n \in ms : n[1] = i} : j >= m[2]
             IN  [matched |-> TRUE, number |-> SubSeq(filename, i + 1, j)]

\* replace_filename_pattern whose group 2 is (\d), the last digit alone
replace_last_digit_only(filename, out_prefix) ==
    LET match == re_match(filename)
    IN  IF match.matched
        THEN <<"p">> \o out_prefix \o <<"_">>
                 \o <<match.number[Len(match.number)]>> \o DotJson
        ELSE filename

replace_filename_pattern(filename, out_prefix) ==
    LET match == re_match(filename)
    IN  IF match.matched
        THEN <<"p">> \o out_prefix \o <<"_">> \o match.number \o DotJson
        ELSE filename

\* the runner's choice of output_file (its base name in output_folder)
output_name(filename, run_id) ==
    LET new_filename == replace_filename_pattern(filename, run_id)
    IN  IF new_filename = filename
        THEN <<"t">> \o run_id \o <<"_">> \o filename
        ELSE new_filename

\* strftime of a zero-padded two-digit field
Fmt2(n) == <<Digits[(n \div 10) + 1], Digits[(n % 10) + 1]>>

\* run_at: %y %V %u %H %M of datetime.now()
RunAt(now) ==
    Fmt2(now.year % 100) \o Fmt2(now.week) \o <<Digits[now.weekday + 1]>>
        \o Fmt2(now.hour) \o Fmt2(now.minute)

Nows == [year : {2026}, week : {45}, weekday : {1}, hour : {1, 23},
         minute : {17}]

---------------------------------------------------------------------------
(* The naming of two files of one run *)

StemChars == {"a", "_", "1"}

RECURSIVE TextsUpTo(_, _)
TextsUpTo(chars, n) ==
    IF n = 0 THEN {<<>>}
    ELSE LET shorter == TextsUpTo(chars, n - 1)
         IN  shorter \cup {Append(t, c) : t \in shorter, c \in chars}

\* names of a source folder: short stems, and outputs of a run of the same
\* minute
FolderNames ==
    {stem \o DotJson : stem \in TextsUpTo(StemChars, MaxStemLen) \ {<<>>}}
        \cup {<<"p">> \o RunAt(now) \o <<"_", "1">> \o DotJson : now \in Nows}
        \cup {<<"t">> \o RunAt(now) \o <<"_", "a">> \o DotJson : now \in Nows}

\* a property of pairs of names: two iterations of the loop are followed
FilesFollowed == 2

NamingInit ==
    /\ SplitIdle
    /\ MainIdle
    /\ ExtractIdle
    /\ naming = [pc |-> "now", files |-> <<>>, run_at |-> <<>>, idx |-> 0,
                 output_file |-> <<>>]

\* lines 208-215
NamingRunAt ==
    /\ naming.pc = "now"
    /\ \E now \in Nows :
           naming' = [naming EXCEPT !.pc = "loop", !.run_at = RunAt(now)]
    /\ UNCHANGED <<split, main_vars, extractor>>

\* lines 220-228, one iteration: the next file of the listing (os.listdir
\* gives distinct names, in any order) and its output file; two files of
\* the run are followed
NamingFile ==
    /\ naming.pc = "loop"
    /\ naming.idx < FilesFollowed
    /\ \E filename \in FolderNames :
           /\ \A k \in 1..Len(naming.files) : naming.files[k] # filename
           /\ naming' = [naming EXCEPT
                  !.idx = naming.idx + 1,
                  !.files = Append(naming.files, filename),
                  !.output_file = Append(naming.output_file,
                                         output_name(filename, naming.run_at))]
    /\ UNCHANGED <<split, main_vars, extractor>>

SpecName == NamingInit /\ [][NamingRunAt \/ NamingFile]_vars

---------------------------------------------------------------------------
(* translate_chunk: the Response Extractor *)

RECURSIVE LStrip(_)
LStrip(text) ==
    IF text # <<>> /\ Head(text) \in Whitespace THEN LStrip(Tail(text)) ELSE text

RECURSIVE RStrip(_)
RStrip(text) ==
    IF text # <<>> /\ text[Len(text)] \in Whitespace
    THEN RStrip(SubSeq(text, 1, Len(text) - 1))
    ELSE text

\* str.strip()
str_strip(text) == RStrip(LStrip(text))

Positions(text, c) == {i \in 1..Len(text) : text[i] = c}

\* str.find and str.rfind, 1-based; 0 stands for -1
str_find(text, c) ==
    IF Positions(text, c) = {} THEN 0
    ELSE CHOOSE i \in Positions(text, c) : \A j \in Positions(text, c) : i <= j

str_rfind(text, c) ==
    IF Positions(text, c) = {} THEN 0
    ELSE CHOOSE i \in Positions(text, c) : \A j \in Positions(text, c) : i >= j

\* Python's None; json.loads("null") gives it too
None == JLit("null")

\* lines 105-116 with find for rfind: the candidate ends at the first "}"
extract_first_closing_brace(translated_text) ==
    LET text == str_strip(translated_text)
        i1 == str_find(text, "{")
        i2 == str_find(text, "}")
        candidate == IF i1 # 0 /\ i2 # 0 THEN SubSeq(text, i1, i2) ELSE text
        loaded == json_loads(candidate)
    IN  IF loaded.ok THEN loaded.val ELSE None

\* lines 105-116: the value translate_chunk returns for the accumulated text
extract_json(translated_text) ==
    LET text == str_strip(translated_text)
        i1 == str_find(text, "{")
        i2 == str_rfind(text, "}")
        candidate == IF i1 # 0 /\ i2 # 0 THEN SubSeq(text, i1, i2) ELSE text
        loaded == json_loads(candidate)
    IN  IF loaded.ok THEN loaded.val ELSE None

\* whether translated_data.update(result) raises: a dict, an empty list and
\* an empty string update; a number, a boolean, a non-empty string (its
\* elements have length one) and a list with an element that is no pair
\* raise TypeError or ValueError
IsPair(v) ==
    \/ v.t = "arr" /\ Len(v.items) = 2 /\ v.items[1].t = "str"
    \/ v.t = "str" /\ Len(v.s) = 2

UpdateRaises(result) ==
    CASE result.t = "obj" -> FALSE
      [] result.t = "arr" -> \E k \in 1..Len(result.items) : ~IsPair(result.items[k])
      [] result.t = "str" -> result.s # <<>>
      [] OTHER -> TRUE

PairKey(v) == IF v.t = "arr" THEN v.items[1].s ELSE <<v.s[1]>>
PairValue(v) == IF v.t = "arr" THEN v.items[2] ELSE JStr(<<v.s[2]>>)

\* the members translated_data.update(result) merges
UpdateMembers(result) ==
    CASE result.t = "obj" -> result.items
      [] result.t = "arr" ->
            [k \in 1..Len(result.items) |->
                [key |-> PairKey(result.items[k]),
                 value |-> PairValue(result.items[k])]]
      [] OTHER -> <<>>

---------------------------------------------------------------------------
(* The source folder, its files and the provider *)

ArgCounts == {2, 3}

\* names os.listdir may give
DirNames ==
    {<<"a", "_", "1">> \o DotJson, <<"1", "_", "1">> \o DotJson,
     <<"a">> \o DotJson, <<"a", ".", "t", "x", "t">>}

Orderings(S) ==
    {f \in [1..Cardinality(S) -> S] : \A i, j \in 1..Cardinality(S) :
                                          i # j => f[i] # f[j]}

\* line 202, for a folder of at most MaxFiles *.json files
Listings ==
    UNION {Orderings({name \in entries : EndsWith(name, DotJson)}) :
           entries \in {e \in SUBSET DirNames :
                          Cardinality({n \in e : EndsWith(n, DotJson)}) <= MaxFiles}}

\* values of the datasets: an empty text, and a text whose entry under a
\* one-byte key is one byte over the budget
FileValues == {JStr(<<>>), JStr(Rep("x", MaxChunkBytes - 8))}

FileStores ==
    UNION {{[i \in 1..n |-> [key |-> Key(i), value |-> vs[i]]] :
            vs \in [1..n -> FileValues]} : n \in 0..MaxEntries}

\* what a file may hold: no text, blanks, JSON that is no object, broken
\* JSON, and a dataset written minified, as json.dumps writes it, or
\* indented
FileContents ==
    {<<>>, <<" ", "\n">>, <<"[", "]">>, <<"4", "2">>, <<"{", "\"", "a", "\"">>}
        \cup {json_dumps_compact(d) : d \in FileStores}
        \cup {json_dumps(d) : d \in FileStores}
        \cup {json_dumps_indent2(d) \o <<"\n">> : d \in FileStores}

\* the provider's translation of a chunk, and what it may answer instead
Translated(chunk) ==
    [k \in 1..Len(chunk) |-> [key |-> chunk[k].key, value |-> JStr(<<"v", "i">>)]]

ResponseBodies(chunk) ==
    {json_dumps(Translated(chunk)),
     json_dumps(Translated(SubSeq(chunk, 1, Len(chunk) - 1))),
     SubSeq(json_dumps(Translated(chunk)), 1, Len(json_dumps(Translated(chunk))) - 1),
     <<"4", "2">>, <<"[", "]">>, <<"\"", "o", "k", "\"">>, <<"n", "u", "l", "l">>,
     <<>>}

\* a Markdown code fence around the payload
Fence == <<"~", "~", "~">>

\* the accumulated text of a completed stream
ResponseTexts(chunk) ==
    ResponseBodies(chunk)
        \cup {Fence \o <<"\n">> \o body \o <<"\n">> \o Fence \o <<"\n">> :
              body \in ResponseBodies(chunk)}

Elapsed == {0, 1}

---------------------------------------------------------------------------
(* The extraction applied to an object's text inside noise *)

Member(key, value) == [key |-> key, value |-> value]

\* objects a provider may answer with: flat, with braces and quotes inside
\* strings and keys, and nested
ExtractObjects ==
    {<<>>,
     <<Member(<<"a">>, JStr(<<>>))>>,
     <<Member(<<"a">>, JStr(<<"}", "{">>))>>,
     <<Member(<<"zh">>, JStr(<<"v", "i">>)), Member(<<"b">>, JStr(<<"\"">>))>>,
     <<Member(<<"{">>, JLit("null"))>>,
     <<Member(<<"a">>, JObj(<<Member(<<"b">>, JNum(<<"1">>))>>)),
       Member(<<"c">>, JStr(<<"x">>))>>,
     <<Member(<<"a">>, JArr(<<JObj(<<>>), JLit("true")>>))>>}

IsFlat(d) == \A k \in 1..Len(d) : d[k].value.t \notin {"arr", "obj"}

\* the texts of an object: json.dumps with its default and its compact
\* separators, and indented
Serializations(d) ==
    {json_dumps(d), json_dumps_compact(d)}
        \cup (IF IsFlat(d) THEN {json_dumps_indent2(d)} ELSE {})

\* what precedes the object in the accumulated text
Prefixes ==
    {<<>>, Fence \o <<"j", "s", "o", "n", "\n">>, <<"o", "k", ":", " ">>,
     <<" ", "\n">>, <<"}">>, <<"{">>, <<"[">>}

\* what follows it
Suffixes ==
    {<<>>, <<"\n">> \o Fence \o <<"\n">>, <<" ", ".">>, <<"{">>, <<"}">>, <<"]">>}

ExtractInit ==
    /\ SplitIdle
    /\ NamingIdle
    /\ MainIdle
    /\ extractor \in
          {[pc |-> "call", prefix |-> p, object |-> d, json |-> j, suffix |-> x,
            text |-> p \o j \o x, result |-> None] :
                p \in Prefixes,
                d \in ExtractObjects,
                j \in UNION {Serializations(o) : o \in ExtractObjects},
                x \in Suffixes}
    /\ extractor.json \in Serializations(extractor.object)

\* lines 105-116 on the accumulated text
ExtractCall ==
    /\ extractor.pc = "call"
    /\ extractor' = [extractor EXCEPT !.pc = "returned",
                                      !.result = extract_json(extractor.text)]
    /\ UNCHANGED <<split, naming, main_vars>>

SpecExtract == ExtractInit /\ [][ExtractCall]_vars

\* C12: from a text prefix + J + suffix, J the text of a JSON object, no
\* "{" in the prefix and no "}" in the suffix, the extraction returns the
\* mapping J decodes to, which is the object J was written from.
C12_ExtractsObject ==
    (/\ extractor.pc = "returned"
     /\ Positions(extractor.prefix, "{") = {}
     /\ Positions(extractor.suffix, "}") = {})
        => /\ extractor.result = json_loads(extractor.json).val
           /\ extractor.result = JObj(extractor.object)

\* a nested object between a code fence's two lines
C12_Witness ==
    /\ extractor.pc = "returned"
    /\ Len(extractor.prefix) > Len(Fence)
    /\ Len(extractor.suffix) > Len(Fence)
    /\ \E k \in 1..Len(extractor.object) : extractor.object[k].value.t = "obj"
    /\ extractor.result = JObj(extractor.object)

---------------------------------------------------------------------------
(* __main__ and translate_text *)

MainInit ==
    /\ SplitIdle
    /\ NamingIdle
    /\ ExtractIdle
    /\ pc = "start"
    /\ argc \in ArgCounts
    /\ files = <<>> /\ run_at = <<>> /\ idx = 0
    /\ success_count = 0 /\ failed_count = 0 /\ exit_code = -1
    /\ tt = NoFrame /\ outputs = {} /\ attempted = <<>>

Side == <<split, naming, extractor>>

\* lines 192-194
Usage ==
    /\ pc = "start" /\ argc # 3
    /\ pc' = "exited" /\ exit_code' = 1
    /\ UNCHANGED <<Side, argc, files, run_at, idx, success_count, failed_count,
                   tt, outputs, attempted>>

\* lines 196-206, no *.json file in the folder
NoFiles ==
    /\ pc = "start" /\ argc = 3
    /\ <<>> \in Listings
    /\ pc' = "exited" /\ exit_code' = 1
    /\ UNCHANGED <<Side, argc, files, run_at, idx, success_count, failed_count,
                   tt, outputs, attempted>>

\* lines 196-206, some *.json files
ListFiles ==
    /\ pc = "start" /\ argc = 3
    /\ \E listing \in Listings :
          /\ listing # <<>>
          /\ files' = listing
    /\ pc' = "now"
    /\ UNCHANGED <<Side, argc, run_at, idx, success_count, failed_count,
                   exit_code, tt, outputs, attempted>>

\* lines 208-218
ComputeRunAt ==
    /\ pc = "now"
    /\ \E now \in Nows : run_at' = RunAt(now)
    /\ success_count' = 0 /\ failed_count' = 0
    /\ pc' = "loop"
    /\ UNCHANGED <<Side, argc, files, idx, exit_code, tt, outputs, attempted>>

\* lines 220-233 and 119-124: the loop takes the next file and calls
\* translate_text
CallTranslateText ==
    /\ pc = "loop" /\ idx < Len(files)
    /\ tt' = [NoFrame EXCEPT !.output_file = output_name(files[idx + 1], run_at)]
    /\ attempted' = Append(attempted, idx + 1)
    /\ pc' = "tt_read"
    /\ UNCHANGED <<Side, argc, files, run_at, idx, success_count, failed_count,
                   exit_code, outputs>>

\* translate_text returns -1 on the input it found
RejectInput(input) ==
    /\ tt' = [tt EXCEPT !.input = input, !.ret = -1]
    /\ pc' = "tt_ret"

\* an exception nothing catches ends the process with status 1
Raise ==
    /\ pc' = "crashed"
    /\ exit_code' = 1

\* lines 126-128: os.path.exists(input_file) is false (the file is gone, or
\* is a dangling link)
InputMissing ==
    /\ pc = "tt_read"
    /\ RejectInput("missing")
    /\ UNCHANGED <<Side, argc, files, run_at, idx, success_count, failed_count,
                   exit_code, outputs, attempted>>

\* lines 131-133: open or read raises OSError or UnicodeDecodeError (no
\* permission, a directory named *.json, bytes that are no UTF-8); only
\* json.JSONDecodeError is caught
InputUnreadable ==
    /\ pc = "tt_read"
    /\ tt' = [tt EXCEPT !.input = "unreadable"]
    /\ Raise
    /\ UNCHANGED <<Side, argc, files, run_at, idx, success_count, failed_count,
                   outputs, attempted>>

\* lines 131-147: the file read, stripped and decoded; 149-166: sized and
\* split
InputRead ==
    /\ pc = "tt_read"
    /\ \E text \in FileContents :
          LET content == str_strip(text)
              loaded == json_loads(content)
              file_size == estimate_text_size(content)
          IN  IF content = <<>> THEN RejectInput("empty")
              ELSE IF ~loaded.ok THEN RejectInput("invalid")
              ELSE IF loaded.val.t # "obj" THEN RejectInput("not_object")
              ELSE /\ tt' = [tt EXCEPT
                          !.input = "object",
                          !.data = loaded.val.items,
                          !.file_size = file_size,
                          !.chunks = IF file_size > MaxChunkBytes
                                     THEN split_json_into_chunks(loaded.val.items,
                                                                 MaxChunkBytes)
                                     ELSE <<loaded.val.items>>,
                          !.i = 1]
                   /\ pc' = "tt_request"
    /\ UNCHANGED <<Side, argc, files, run_at, idx, success_count, failed_count,
                   exit_code, outputs, attempted>>

\* lines 70-71: the size of the request payload
ChunkSize(chunk_data) == estimate_text_size(json_dumps_indent2(chunk_data))

\* lines 170-172 and 68-92: the next chunk is handed to translate_chunk,
\* which sends the request; a failure to establish the stream makes it
\* return None and translate_text -1
ChunkRequest ==
    /\ pc = "tt_request" /\ tt.i <= Len(tt.chunks)
    /\ \E established \in BOOLEAN :
          IF established
          THEN /\ tt' = [tt EXCEPT !.requests = tt.requests + 1,
                                   !.chunk_size = ChunkSize(tt.chunks[tt.i]),
                                   !.received = FALSE, !.response = <<>>,
                                   !.result = None]
               /\ pc' = "tt_stream"
          ELSE /\ tt' = [tt EXCEPT !.requests = tt.requests + 1,
                                   !.chunk_size = ChunkSize(tt.chunks[tt.i]),
                                   !.received = FALSE, !.response = <<>>,
                                   !.result = None, !.failure = "network",
                                   !.failed_chunk = tt.i, !.ret = -1]
               /\ pc' = "tt_ret"
    /\ UNCHANGED <<Side, argc, files, run_at, idx, success_count, failed_count,
                   exit_code, outputs, attempted>>

\* lines 94-103: consuming the stream raises
StreamFails ==
    /\ pc = "tt_stream"
    /\ tt' = [tt EXCEPT !.failure = "stream", !.failed_chunk = tt.i, !.ret = -1]
    /\ pc' = "tt_ret"
    /\ UNCHANGED <<Side, argc, files, run_at, idx, success_count, failed_count,
                   exit_code, outputs, attempted>>

\* lines 174-176 with "continue" for "return -1": a chunk that failed is
\* skipped and the loop goes on
ChunkResponseSkipsFailed ==
    /\ pc = "tt_stream"
    /\ \E text \in ResponseTexts(tt.chunks[tt.i]) :
          LET result == extract_json(text)
              got == [tt EXCEPT !.received = TRUE, !.response = text,
                                !.result = result,
                                !.results = IF result = None THEN tt.results
                                            ELSE Append(tt.results, result)]
          IN  IF result = None
              THEN /\ tt' = [got EXCEPT !.failure = "decode",
                                        !.failed_chunk = tt.i, !.i = tt.i + 1]
                   /\ pc' = "tt_request"
                   /\ UNCHANGED exit_code
              ELSE IF UpdateRaises(result)
              THEN /\ tt' = got
                   /\ Raise
              ELSE /\ tt' = [got EXCEPT
                          !.translated_data =
                              DictUpdate(tt.translated_data, UpdateMembers(result)),
                          !.i = tt.i + 1]
                   /\ pc' = "tt_request"
                   /\ UNCHANGED exit_code
    /\ UNCHANGED <<Side, argc, files, run_at, idx, success_count, failed_count,
                   outputs, attempted>>

\* lines 174-176 with a retry for "return -1": a chunk that failed is
\* submitted again
ChunkResponseRetries ==
    /\ pc = "tt_stream"
    /\ \E text \in ResponseTexts(tt.chunks[tt.i]) :
          LET result == extract_json(text)
              got == [tt EXCEPT !.received = TRUE, !.response = text,
                                !.result = result,
                                !.results = IF result = None THEN tt.results
                                            ELSE Append(tt.results, result)]
          IN  IF result = None
              THEN /\ tt' = [got EXCEPT !.failure = "decode",
                                        !.failed_chunk = tt.i]
                   /\ pc' = "tt_request"
                   /\ UNCHANGED exit_code
              ELSE IF UpdateRaises(result)
              THEN /\ tt' = got
                   /\ Raise
              ELSE /\ tt' = [got EXCEPT
                          !.translated_data =
                              DictUpdate(tt.translated_data, UpdateMembers(result)),
                          !.i = tt.i + 1]
                   /\ pc' = "tt_request"
                   /\ UNCHANGED exit_code
    /\ UNCHANGED <<Side, argc, files, run_at, idx, success_count, failed_count,
                   outputs, attempted>>

\* lines 94-116 and 174-179: the stream ends, the text is extracted, and
\* translate_text fails on None and merges anything else
ChunkResponse ==
    /\ pc = "tt_stream"
    /\ \E text \in ResponseTexts(tt.chunks[tt.i]) :
          LET result == extract_json(text)
              got == [tt EXCEPT !.received = TRUE, !.response = text,
                                !.result = result,
                                !.results = IF result = None THEN tt.results
                                            ELSE Append(tt.results, result)]
          IN  IF result = None
              THEN /\ tt' = [got EXCEPT !.failure = "decode",
                                        !.failed_chunk = tt.i, !.ret = -1]
                   /\ pc' = "tt_ret"
                   /\ UNCHANGED exit_code
              ELSE IF UpdateRaises(result)
              THEN /\ tt' = got
                   /\ Raise
              ELSE /\ tt' = [got EXCEPT
                          !.translated_data =
                              DictUpdate(tt.translated_data, UpdateMembers(result)),
                          !.i = tt.i + 1]
                   /\ pc' = "tt_request"
                   /\ UNCHANGED exit_code
    /\ UNCHANGED <<Side, argc, files, run_at, idx, success_count, failed_count,
                   outputs, attempted>>

\* f[x] = y for a function kept as a set of <<x, y>> pairs
Store(f, x, y) == {p \in f : p[1] # x} \cup {<<x, y>>}

\* lines 181-188: the loop is over, the result is written, the elapsed
\* time returned
Save ==
    /\ pc = "tt_request" /\ tt.i > Len(tt.chunks)
    /\ outputs' = Store(outputs, tt.output_file, idx + 1)
    /\ \E elapsed \in Elapsed :
          tt' = [tt EXCEPT !.received = FALSE, !.response = <<>>,
                           !.result = None, !.ret = elapsed]
    /\ pc' = "tt_ret"
    /\ UNCHANGED <<Side, argc, files, run_at, idx, success_count, failed_count,
                   exit_code, attempted>>

\* lines 235-242
CountFile ==
    /\ pc = "tt_ret"
    /\ IF tt.ret < 0
       THEN failed_count' = failed_count + 1 /\ UNCHANGED success_count
       ELSE success_count' = success_count + 1 /\ UNCHANGED failed_count
    /\ idx' = idx + 1
    /\ pc' = "loop"
    /\ UNCHANGED <<Side, argc, files, run_at, exit_code, tt, outputs, attempted>>

\* lines 244-253 and the end of the script
Summary ==
    /\ pc = "loop" /\ idx = Len(files)
    /\ exit_code' = IF failed_count > 0 THEN 1 ELSE 0
    /\ pc' = "exited"
    /\ UNCHANGED <<Side, argc, files, run_at, idx, success_count, failed_count,
                   tt, outputs, attempted>>

Next ==
    \/ Usage \/ NoFiles \/ ListFiles \/ ComputeRunAt \/ CallTranslateText
    \/ InputMissing \/ InputUnreadable \/ InputRead
    \/ ChunkRequest \/ StreamFails \/ ChunkResponse \/ Save
    \/ CountFile \/ Summary

Spec == MainInit /\ [][Next]_vars

---------------------------------------------------------------------------
(* Properties of a run *)

\* the file translate_text is, or was last, called for
CurrentFile == Len(attempted)

Terminated == pc \in {"exited", "crashed"}

\* C3: every chunk handed to translate_chunk, from the splitter or the
\* whole dataset when splitting is skipped, has a serialized size within
\* the budget and holds no entry whose standalone size exceeds the budget.
C3_Original ==
    pc = "tt_stream" =>
        LET chunk == tt.chunks[tt.i]
        IN  /\ estimate_text_size(json_dumps(chunk)) <= MaxChunkBytes
            /\ \A k \in 1..Len(chunk) : ~Oversized(chunk[k], MaxChunkBytes)

\* a "{" somewhere before a "}"
HasBracePair(text) ==
    \E i, j \in 1..Len(text) : i < j /\ text[i] = "{" /\ text[j] = "}"

\* C4: a response text without a brace pair makes translate_chunk return
\* None, and no exception leaves translate_chunk or translate_text.
C4_Original ==
    (tt.received /\ ~HasBracePair(tt.response))
        => (tt.result = None /\ pc # "crashed")

\* C5: once a chunk of a file has failed, translate_text has returned -1,
\* no chunk after the failed one was submitted, and the output file of that
\* file is not written.
C5_FailureAborts ==
    tt.failed_chunk # 0 =>
        /\ pc \notin {"tt_read", "tt_request", "tt_stream"}
        /\ tt.ret = -1
        /\ tt.requests = tt.failed_chunk
        /\ <<tt.output_file, CurrentFile>> \notin outputs

\* the second chunk of a file failed after the first was merged
C5_Witness ==
    /\ tt.failed_chunk = 2
    /\ tt.translated_data # <<>>
    /\ Len(tt.chunks) = 2
    /\ pc = "loop"

\* C6: the runner attempts every file once, in list order, whatever the
\* files' outcomes, and reaches the summary with success_count +
\* failed_count = number of files.
C6_Original ==
    (Terminated /\ files # <<>>) =>
        /\ pc = "exited"
        /\ attempted = [k \in 1..Len(files) |-> k]
        /\ success_count + failed_count = Len(files)

\* C7: on a missing, unreadable or empty input file, or one that is no JSON
\* mapping, translate_text returns -1 without raising, before any chunking:
\* no split, no request, no output file.
C7_Original ==
    tt.input \in {"missing", "unreadable", "empty", "invalid", "not_object"} =>
        /\ pc # "crashed"
        /\ tt.ret = -1
        /\ tt.chunks = <<>>
        /\ tt.requests = 0
        /\ <<tt.output_file, CurrentFile>> \notin outputs

\* C8: with two positional arguments, the exit status is non-zero exactly
\* when no *.json file was found or failed_count > 0.
C8_Original ==
    (Terminated /\ argc = 3) =>
        (exit_code # 0 <=> (files = <<>> \/ failed_count > 0))

\* the numeric suffixes of a name <name>_<numeric-suffix>.json (none, or one)
NumericSuffixes(filename) ==
    {SubSeq(filename, i + 1, Len(filename) - Len(DotJson)) :
        i \in {k \in 2..(Len(filename) - Len(DotJson) - 1) :
                  /\ EndsWith(filename, DotJson)
                  /\ filename[k] = "_"
                  /\ \A d \in (k + 1)..(Len(filename) - Len(DotJson)) :
                         IsDigit(filename[d])}}

\* C9 as stated: within one run, two distinct input file names get distinct
\* output file names.
C9_Original ==
    \A i, j \in 1..Len(naming.output_file) :
        naming.files[i] # naming.files[j]
            => naming.output_file[i] # naming.output_file[j]

\* C9, where it holds: within one run, two distinct input file names get distinct
\* output file names unless both are of the form <name>_<numeric-suffix>.json
\* with the same numeric suffix.
C9_DistinctUnlessSameSuffix ==
    \A i, j \in 1..Len(naming.output_file) :
        (/\ naming.files[i] # naming.files[j]
         /\ NumericSuffixes(naming.files[i]) \cap NumericSuffixes(naming.files[j]) = {})
            => naming.output_file[i] # naming.output_file[j]

\* two files named in one run, both with a numeric suffix, the suffixes differ
C9_Witness ==
    /\ Len(naming.output_file) = 2
    /\ NumericSuffixes(naming.files[1]) # {}
    /\ NumericSuffixes(naming.files[2]) # {}
    /\ NumericSuffixes(naming.files[1]) # NumericSuffixes(naming.files[2])
    /\ naming.output_file[1] # naming.output_file[2]

\* C10: a file named <name>_<numeric-suffix>.json gets the output name
\* p<run_at>_<numeric-suffix>.json, every other file t<run_at>_<its name>.
C10_NamingRule ==
    \A k \in 1..Len(naming.output_file) :
        LET filename == naming.files[k]
        IN  /\ \A number \in NumericSuffixes(filename) :
                   naming.output_file[k]
                       = <<"p">> \o naming.run_at \o <<"_">> \o number \o DotJson
            /\ NumericSuffixes(filename) = {}
                   => naming.output_file[k]
                          = <<"t">> \o naming.run_at \o <<"_">> \o filename

---------------------------------------------------------------------------
(* Properties of the translation of one file *)

\* the chunk the last received response answers
AnsweredChunk == tt.chunks[IF pc = "tt_request" THEN tt.i - 1 ELSE tt.i]

\* the keys translate_text sent to the provider for the file
SentKeys == UNION {KeysOf(tt.chunks[k]) : k \in 1..Len(tt.chunks)}

\* C11: a mapping translate_chunk returns as a success has the key set of
\* the chunk that was sent, and the result written for a
\* file has the key set of its dataset without the skipped entries.
C11_Original ==
    /\ (tt.received /\ tt.result.t = "obj") =>
            KeysOf(tt.result.items) = KeysOf(AnsweredChunk)
    /\ (pc = "tt_ret" /\ tt.ret >= 0) =>
            KeysOf(tt.translated_data) = SentKeys

\* the sum of the standalone sizes of the entries the splitter keeps
RECURSIVE KeptSize(_, _)
KeptSize(data, max_size) ==
    IF data = <<>> THEN 0
    ELSE (IF Oversized(Head(data), max_size) THEN 0
          ELSE estimate_text_size(json_dumps(<<Head(data)>>)))
            + KeptSize(Tail(data), max_size)

\* translate_text has just sized and split the file (the chunks stay as
\* they are for the rest of the call)
SplitDone == tt.input = "object" /\ pc = "tt_request" /\ tt.requests = 0

\* C13 as stated: a file whose size T is over the budget B is split into at
\* least ceil(T / B) chunks.
C13_Original ==
    (tt.input = "object" /\ tt.file_size > MaxChunkBytes)
        => Len(tt.chunks) * MaxChunkBytes >= tt.file_size

\* C13 (amended): a file whose size is over the budget B is split into at
\* least ceil(K / B) chunks, K the sum of the standalone sizes of the
\* entries that are not skipped as oversized.
C13_ChunkCount ==
    (SplitDone /\ tt.file_size > MaxChunkBytes)
        => Len(tt.chunks) * MaxChunkBytes
               >= KeptSize(tt.data, MaxChunkBytes)

\* a file over the budget, one entry skipped, the others in two chunks
C13_Witness ==
    /\ tt.input = "object" /\ tt.file_size > MaxChunkBytes
    /\ \E k \in 1..Len(tt.data) : Oversized(tt.data[k], MaxChunkBytes)
    /\ Len(tt.chunks) = 2
    /\ KeptSize(tt.data, MaxChunkBytes) > MaxChunkBytes

\* C14: within one file a request is issued only while none is in flight,
\* for the chunk whose index is one more than the number of requests made
\* so far (in order 1..N, none twice), and after the first only when the
\* previous chunk's outcome was received and was a success.
C14_OneAtATime ==
    [][tt'.requests > tt.requests =>
          /\ pc = "tt_request"
          /\ tt'.requests = tt.requests + 1
          /\ tt.i = tt.requests + 1
          /\ tt.i <= Len(tt.chunks)
          /\ tt.i > 1 => (tt.received /\ tt.result # None /\ tt.failed_chunk = 0)]_vars

\* the request for the second chunk of a file is in flight, the first
\* chunk's result merged
C14_Witness ==
    /\ pc = "tt_stream"
    /\ tt.requests = 2
    /\ tt.i = 2
    /\ tt.translated_data # <<>>

\* the call of translate_text for the current file is over
CallOver == pc \notin {"tt_read", "tt_request", "tt_stream"}

\* translate_text wrote the output file and returned the elapsed time
Done == <<tt.output_file, CurrentFile>> \in outputs /\ tt.ret >= 0

\* C15: translate_text writes the output file and returns a non-negative
\* elapsed time, which the runner counts as a success, exactly when each of
\* the N chunks returned a result that is no failure, and the mapping it
\* writes is the union of the N results.
C15_Original ==
    (CallOver /\ tt.input = "object") =>
        /\ Done <=> Len(tt.results) = Len(tt.chunks)
        /\ Done =>
              AsMap(tt.translated_data)
                  = UNION {AsMap(UpdateMembers(tt.results[k])) :
                              k \in 1..Len(tt.results)}

---------------------------------------------------------------------------
(* Properties of the chunks the splitter returns *)

\* current_size when the chunk was closed: the sum of the standalone sizes
\* of its entries
RECURSIVE AccumulatedSize(_)
AccumulatedSize(chunk) ==
    IF chunk = <<>> THEN 0
    ELSE estimate_text_size(json_dumps(<<Head(chunk)>>))
            + AccumulatedSize(Tail(chunk))

\* C16: for consecutive chunks c_i, c_i+1 the splitter returns, the
\* accumulated size of c_i plus the standalone size of the first entry of
\* c_i+1 exceeds the budget.
C16_ClosedOnlyWhenForced ==
    split.pc = "returned" =>
        \A i \in 1..(Len(split.chunks) - 1) :
            AccumulatedSize(split.chunks[i])
                + estimate_text_size(json_dumps(<<split.chunks[i + 1][1]>>))
              > split.max_size

\* a chunk of two entries closed before a third entry
C16_Witness ==
    /\ split.pc = "returned"
    /\ Len(split.chunks) = 2
    /\ Len(split.chunks[1]) = 2
    /\ Len(split.data) = 3

RECURSIVE Flatten(_)
Flatten(chunks) ==
    IF chunks = <<>> THEN <<>> ELSE Head(chunks) \o Flatten(Tail(chunks))

KeySeq(d) == [k \in 1..Len(d) |-> d[k].key]

NotOversized(data, max_size) ==
    LET fits(e) == ~Oversized(e, max_size) IN SelectSeq(data, fits)

\* C17: the splitter returns no empty chunk, and the keys of its chunks, one
\* chunk after the other, are the keys of the store in their order without
\* the keys of the oversized entries.
C17_OrderKept ==
    split.pc = "returned" =>
        /\ \A i \in 1..Len(split.chunks) : split.chunks[i] # <<>>
        /\ KeySeq(Flatten(split.chunks))
              = KeySeq(NotOversized(split.data, split.max_size))

\* an oversized entry skipped between the entries of two chunks
C17_Witness ==
    /\ split.pc = "returned"
    /\ Len(split.data) = 3
    /\ Oversized(split.data[2], split.max_size)
    /\ Len(split.chunks) = 2

====
